---- MODULE Spec2Model ----
(***************************************************************************)
(* Model of vulkano's SubmitCommandBufferBuilder                           *)
(* (vulkano/src/command_buffer/submit/queue_submit.rs): the builder that   *)
(* accumulates one queue-submit batch, its merge operation, and submit,    *)
(* together with the queue / fence / semaphore behaviour of the device the *)
(* batch is handed to; and of the frame loop of the deferred example       *)
(* (examples/src/bin/deferred/main.rs): the event handler that recreates   *)
(* the swapchain, acquires an image, drives the passes of a frame and      *)
(* presents it.                                                            *)
(***************************************************************************)
EXTENDS Naturals, Sequences, FiniteSets

(* ------------------------------ bounds --------------------------------- *)

\* Largest number of entries (waits + command buffers + signals) held by all
\* live builders and all waiting batches together, a waiting batch counting as
\* one entry more than it holds.
MaxEntries == 2

\* Largest length of each list of a builder drawn as an argument of merge.
MaxItems == 1

(* ------------------------------ handles -------------------------------- *)

\* ash::vk::Fence::null(), the "no fence" sentinel.
NullFence == 0

Fences == {1, 2}
Semaphores == {1, 2}
CommandBuffers == {1, 2}

\* PipelineStages converted to ash::vk::PipelineStageFlags: a bit mask, 0 is
\* the empty mask.
StageMasks == {0, 1, 2}

\* A slot whose builder was moved out (consumed by submit or merge) or never
\* assigned.
Moved == [moved |-> TRUE]

\* VkResult values vkQueueSubmit can hand back; the last one stands for every
\* error code other than the three From<Error> converts.
VkResults == {"SUCCESS", "ERROR_OUT_OF_HOST_MEMORY", "ERROR_OUT_OF_DEVICE_MEMORY",
              "ERROR_DEVICE_LOST", "ERROR_INITIALIZATION_FAILED"}

VARIABLES
    builders,            \* the caller's variables -> a SubmitCommandBufferBuilder or Moved
    signal_calls,        \* per variable: calls of add_signal_semaphore on its builder
    merged_calls,        \* per variable: such calls on the builders merged into its builder
    debug_assertions,    \* whether the build has debug assertions on
    queue,               \* batches the queue accepted and has not executed yet
    signaled_semaphores, \* semaphores in the signaled state
    signaled_fences,     \* fences in the signaled state
    last                 \* the last operation and how it ended

VARIABLES
    recreate_swapchain,  \* main: let mut recreate_swapchain
    previous_frame_end,  \* main: let mut previous_frame_end, an Option of a future
    swapchain,           \* main: let mut swapchain, the number of times it was recreated
    images,              \* main: let mut images, the swapchain the image views belong to
    dimensions,          \* surface.window().inner_size()
    control_flow,        \* *control_flow
    pc,                  \* where the event handler stands
    acquired,            \* (image_num, suboptimal, acquire_future) of this iteration
    frame,               \* let mut frame: its future, its image and its pass cursor
    after_future,        \* let mut after_future, an Option of a future
    iterations,          \* redraw iterations that got past the size check
    iter,                \* what the current redraw iteration has done
    need,                \* why the swapchain is due for a recreation that has not succeeded yet
    flushed              \* the latest flush attempt: its result and the last future flushed

vars == <<builders, signal_calls, merged_calls, debug_assertions, queue,
          signaled_semaphores, signaled_fences, last,
          recreate_swapchain, previous_frame_end, swapchain, images, dimensions,
          control_flow, pc, acquired, frame, after_future, iterations, iter, need,
          flushed>>

builder_vars == <<builders, signal_calls, merged_calls, debug_assertions, queue,
                  signaled_semaphores, signaled_fences, last>>

frame_vars == <<recreate_swapchain, previous_frame_end, swapchain, images, dimensions,
                control_flow, pc, acquired, frame, after_future, iterations, iter,
                need, flushed>>

call_vars == <<signal_calls, merged_calls>>

device_vars == <<queue, signaled_semaphores, signaled_fences>>

\* The variables the caller holds builders in.
Slots == DOMAIN builders

(* ------------------------------ builder -------------------------------- *)

\* SubmitCommandBufferBuilder::new
new ==
    [wait_semaphores |-> <<>>,
     destination_stages |-> <<>>,
     signal_semaphores |-> <<>>,
     command_buffers |-> <<>>,
     fence |-> NullFence]

\* has_fence with the comparison inverted.
has_fence_inverted(self) == self.fence = NullFence

\* SubmitCommandBufferBuilder::has_fence
has_fence(self) == self.fence # NullFence

\* SubmitCommandBufferBuilder::set_fence_signal
set_fence_signal(self, fence) == [self EXCEPT !.fence = fence]

\* The debug_assert! of add_wait_semaphore fails: the mask is empty and the
\* build checks debug assertions.
add_wait_semaphore_panics(stages) == debug_assertions /\ stages = 0

\* add_wait_semaphore without the push of the stage mask.
add_wait_semaphore_no_stage(self, semaphore, stages) ==
    [self EXCEPT !.wait_semaphores = Append(@, semaphore)]

\* SubmitCommandBufferBuilder::add_wait_semaphore, past its debug_assert!
add_wait_semaphore(self, semaphore, stages) ==
    [self EXCEPT !.wait_semaphores = Append(@, semaphore),
                 !.destination_stages = Append(@, stages)]

\* SubmitCommandBufferBuilder::add_command_buffer
add_command_buffer(self, command_buffer) ==
    [self EXCEPT !.command_buffers = Append(@, command_buffer)]

\* num_signal_semaphores reading the length of the wait list.
num_signal_semaphores_of_waits(self) == Len(self.wait_semaphores)

\* SubmitCommandBufferBuilder::num_signal_semaphores
num_signal_semaphores(self) == Len(self.signal_semaphores)

\* SubmitCommandBufferBuilder::add_signal_semaphore
add_signal_semaphore(self, semaphore) ==
    [self EXCEPT !.signal_semaphores = Append(@, semaphore)]

\* SmallVec::extend: pushes the items of the other vector one by one, first
\* to last.
RECURSIVE extend(_, _)
extend(v, items) ==
    IF items = <<>> THEN v ELSE extend(Append(v, Head(items)), Tail(items))

\* The assert! of merge testing the fence of self alone.
merge_panics_self_only(self, other) == self.fence # NullFence

\* The assert! at the start of merge fails.
merge_panics(self, other) ==
    ~(self.fence = NullFence \/ other.fence = NullFence)

\* merge without the assignment of other's fence.
merge_fence_keeps_self(self, other) == self.fence

\* The fence merge leaves in self.
merge_fence(self, other) ==
    IF self.fence = NullFence THEN other.fence ELSE self.fence

\* merge extending other's stage masks with self's.
merge_stages_swapped(self, other) ==
    [wait_semaphores |-> extend(self.wait_semaphores, other.wait_semaphores),
     destination_stages |-> extend(other.destination_stages, self.destination_stages),
     signal_semaphores |-> extend(self.signal_semaphores, other.signal_semaphores),
     command_buffers |-> extend(self.command_buffers, other.command_buffers),
     fence |-> merge_fence(self, other)]

\* SubmitCommandBufferBuilder::merge, past its assert!
merge(self, other) ==
    [wait_semaphores |-> extend(self.wait_semaphores, other.wait_semaphores),
     destination_stages |-> extend(self.destination_stages, other.destination_stages),
     signal_semaphores |-> extend(self.signal_semaphores, other.signal_semaphores),
     command_buffers |-> extend(self.command_buffers, other.command_buffers),
     fence |-> merge_fence(self, other)]

(* ------------------------------ submit --------------------------------- *)

\* The first n items behind a pointer into a vector (the array the backend
\* reads from a pointer and a count).
Take(v, n) == SubSeq(v, 1, n)

\* The debug_assert_eq! at the start of submit fails.
submit_panics(self) ==
    debug_assertions /\ Len(self.wait_semaphores) # Len(self.destination_stages)

\* submit passing a null fence to the backend.
submit_info_no_fence(self) ==
    [wait_semaphores |-> Take(self.wait_semaphores, Len(self.wait_semaphores)),
     wait_dst_stage_mask |-> Take(self.destination_stages, Len(self.wait_semaphores)),
     command_buffers |-> Take(self.command_buffers, Len(self.command_buffers)),
     signal_semaphores |-> Take(self.signal_semaphores, Len(self.signal_semaphores)),
     fence |-> NullFence]

\* The ash::vk::SubmitInfo submit builds, with the fence it passes beside it:
\* what the one vkQueueSubmit call carries.
submit_info(self) ==
    [wait_semaphores |-> Take(self.wait_semaphores, Len(self.wait_semaphores)),
     wait_dst_stage_mask |-> Take(self.destination_stages, Len(self.wait_semaphores)),
     command_buffers |-> Take(self.command_buffers, Len(self.command_buffers)),
     signal_semaphores |-> Take(self.signal_semaphores, Len(self.signal_semaphores)),
     fence |-> self.fence]

\* crate::check_errors: a VkResult as Ok or as the crate's Error.
check_errors(result) ==
    CASE result = "SUCCESS" -> "Ok"
      [] result = "ERROR_OUT_OF_HOST_MEMORY" -> "OutOfHostMemory"
      [] result = "ERROR_OUT_OF_DEVICE_MEMORY" -> "OutOfDeviceMemory"
      [] result = "ERROR_DEVICE_LOST" -> "DeviceLost"
      [] OTHER -> "InitializationFailed"

\* From<Error> with a catch-all arm that returns DeviceLost.
from_error_returns_other(err) ==
    CASE err = "OutOfHostMemory" -> "OomError(OutOfHostMemory)"
      [] err = "OutOfDeviceMemory" -> "OomError(OutOfDeviceMemory)"
      [] OTHER -> "DeviceLost"

\* From<Error> for SubmitCommandBufferError; "panic" is the panic! arm.
from_error(err) ==
    CASE err = "OutOfHostMemory" -> "OomError(OutOfHostMemory)"
      [] err = "OutOfDeviceMemory" -> "OomError(OutOfDeviceMemory)"
      [] err = "DeviceLost" -> "DeviceLost"
      [] OTHER -> "panic"

\* submit converting the backend result as an error whatever it is.
submit_result_always_converts(result) == from_error(check_errors(result))

\* What submit returns for a backend result: check_errors(..)? then Ok(()).
submit_result(result) ==
    IF check_errors(result) = "Ok" THEN "Ok" ELSE from_error(check_errors(result))

(* ------------------------------ device --------------------------------- *)

Range(v) == {v[k] : k \in 1..Len(v)}

NoDuplicates(v) == \A k, l \in 1..Len(v) : v[k] = v[l] => k = l

\* The semaphores signaled once the device has executed the batches of q in
\* order, starting with the set s signaled.
RECURSIVE SignaledAfter(_, _)
SignaledAfter(s, q) ==
    IF q = <<>> THEN s
    ELSE SignaledAfter((s \ Range(Head(q).wait_semaphores))
                           \cup Range(Head(q).signal_semaphores), Tail(q))

\* The fences of the batches waiting in the queue.
PendingFences == {queue[k].fence : k \in 1..Len(queue)} \ {NullFence}

\* The caller's side of the contract of submit (the Safety sections of
\* set_fence_signal, add_wait_semaphore and add_signal_semaphore): the fence is
\* neither signaled nor in use by a pending submission, the stage masks are not
\* empty, every wait has exactly one signal to consume when the queue reaches
\* the batch, and every signaled semaphore is unsignaled by then.
SubmitContract(self) ==
    /\ self.fence \notin (signaled_fences \cup PendingFences)
    /\ \A k \in 1..Len(self.destination_stages) : self.destination_stages[k] # 0
    /\ NoDuplicates(self.wait_semaphores)
    /\ NoDuplicates(self.signal_semaphores)
    /\ Range(self.wait_semaphores) \subseteq SignaledAfter(signaled_semaphores, queue)
    /\ Range(self.signal_semaphores)
         \cap (SignaledAfter(signaled_semaphores, queue) \ Range(self.wait_semaphores)) = {}

\* vkQueueSubmit with one batch: the queue as the call leaves it.
queue_submit(q, batch, result) ==
    IF result = "SUCCESS" THEN Append(q, batch) ELSE q

(* ------------------------------ actions -------------------------------- *)

BuilderLen(b) ==
    IF b = Moved THEN 0
    ELSE Len(b.wait_semaphores) + Len(b.command_buffers) + Len(b.signal_semaphores)

RECURSIVE SumOver(_, _)
SumOver(f, S) ==
    IF S = {} THEN 0
    ELSE LET x == CHOOSE y \in S : TRUE IN f[x] + SumOver(f, S \ {x})

\* What MaxEntries bounds.
Entries ==
    SumOver([i \in Slots |-> BuilderLen(builders[i])], Slots)
        + SumOver([k \in 1..Len(queue) |-> 1 + BuilderLen(queue[k])], 1..Len(queue))

Did(op, self, other, backend, result, ran) ==
    [op |-> op, self |-> self, other |-> other, backend |-> backend,
     result |-> result, ran |-> ran]

Live(i) == builders[i] # Moved

(* ------------------------ the frame loop: values ----------------------- *)

\* The largest number of redraw iterations that get past the size check.
MaxFrames == 3

\* Option::None
None == [kind |-> "none"]

\* The indices of the images of a swapchain.
ImageNums == {0, 1}

\* The widths and the heights the window takes.
Extents == {0, 1}

\* What swapchain.recreate, acquire_next_image and
\* then_signal_fence_and_flush return: Ok, the error the loop handles, or any
\* other error.
RecreateResults == {"Ok", "ImageExtentNotSupported", "OtherError"}
AcquireResults == {"Ok", "OutOfDate", "OtherError"}
FlushResults == {"Ok", "OutOfDate", "OtherError"}

\* sync::now(device.clone()).boxed()
now == [kind |-> "now"]

\* A join that waits for the second future only.
join_second_only(first, second) == [kind |-> "join", first |-> now, second |-> second]

\* previous.join(acquire_future)
join(first, second) == [kind |-> "join", first |-> first, second |-> second]

\* The future acquire_next_image(swapchain, None) returns with image_num.
acquire_future(sc, image_num) ==
    [kind |-> "acquire", swapchain |-> sc, image_num |-> image_num]

\* images[image_num]
image_view(imgs, image_num) == [swapchain |-> imgs, image_num |-> image_num]

\* A present of the first image of the swapchain, whichever was acquired.
then_swapchain_present_first_image(f, sc, image_num) ==
    [kind |-> "present", previous |-> f, swapchain |-> sc, image_num |-> 0]

\* after_future.then_swapchain_present(queue, swapchain, image_num)
then_swapchain_present(f, sc, image_num) ==
    [kind |-> "present", previous |-> f, swapchain |-> sc, image_num |-> image_num]

\* The future of Ok(future) of f.then_signal_fence_and_flush()
then_signal_fence_and_flush(f) == [kind |-> "fence", previous |-> f]

\* The size check with && in the place of ||.
zero_sized_both(dim) == dim.width = 0 /\ dim.height = 0

\* dimensions.width == 0 || dimensions.height == 0
zero_sized(dim) == dim.width = 0 \/ dim.height = 0

\* frame_system.frame(future, image, world_to_framebuffer): the frame before
\* its first pass.
new_frame(future, image) == [future |-> future, image |-> image, cursor |-> 0]

\* The passes of a frame, in the order next_pass produces them.
Passes == <<"Deferred", "Lighting", "Finished">>

\* The future Pass::Finished carries: the work of the frame, submitted after
\* the future the frame was made with.
finished_future(fr) == [kind |-> "frame", previous |-> fr.future, image |-> fr.image]

\* frame.next_pass(): the pass (or "None") and the frame after the call.
next_pass(fr) ==
    IF fr.cursor < Len(Passes)
    THEN [pass |-> Passes[fr.cursor + 1],
          frame |-> [fr EXCEPT !.cursor = @ + 1]]
    ELSE [pass |-> "None", frame |-> fr]

\* match pass { .. } with an arm for Finished that drops its future.
match_pass_drops_future(pass, fr, current) == current

\* match pass { .. }: after_future after the arm of the pass.
match_pass(pass, fr, current) ==
    IF pass = "Finished" THEN finished_future(fr) ELSE current

\* An Err(AcquireError::OutOfDate) arm that returns without setting the flag.
flag_after_acquire_only_suboptimal(flag, result, suboptimal) ==
    IF result = "Ok" /\ suboptimal THEN TRUE ELSE flag

\* What acquire_next_image's result leaves in recreate_swapchain.
flag_after_acquire(flag, result, suboptimal) ==
    IF result = "OutOfDate" THEN TRUE
    ELSE IF result = "Ok" /\ suboptimal THEN TRUE
    ELSE flag

\* A recreation block without images = new_images.
recreate_arm_keeps_images(result, sc, imgs, flag) ==
    IF result = "Ok"
    THEN [swapchain |-> sc + 1, images |-> imgs, recreate_swapchain |-> FALSE]
    ELSE [swapchain |-> sc, images |-> imgs, recreate_swapchain |-> flag]

\* A recreation block without recreate_swapchain = false.
recreate_arm_keeps_flag(result, sc, imgs, flag) ==
    IF result = "Ok"
    THEN [swapchain |-> sc + 1, images |-> sc + 1, recreate_swapchain |-> flag]
    ELSE [swapchain |-> sc, images |-> imgs, recreate_swapchain |-> flag]

\* A recreation block that clears the flag whatever swapchain.recreate
\* returned.
recreate_arm_always_clears(result, sc, imgs, flag) ==
    IF result = "Ok"
    THEN [swapchain |-> sc + 1, images |-> sc + 1, recreate_swapchain |-> FALSE]
    ELSE [swapchain |-> sc, images |-> imgs, recreate_swapchain |-> FALSE]

\* What swapchain.recreate's result leaves in swapchain, images and
\* recreate_swapchain.
recreate_arm(result, sc, imgs, flag) ==
    IF result = "Ok"
    THEN [swapchain |-> sc + 1, images |-> sc + 1, recreate_swapchain |-> FALSE]
    ELSE [swapchain |-> sc, images |-> imgs, recreate_swapchain |-> flag]

\* A match future { .. } whose Ok arm clears the flag.
flag_after_flush_clears_on_ok(flag, result) ==
    IF result = "OutOfDate" THEN TRUE ELSE IF result = "Ok" THEN FALSE ELSE flag

\* A match future { .. } whose out-of-date arm does not set the flag.
flag_after_flush_unchanged(flag, result) == flag

\* match future { .. }: recreate_swapchain after the flush.
flag_after_flush(flag, result) ==
    IF result = "OutOfDate" THEN TRUE ELSE flag

\* A match future { .. } whose error arms leave previous_frame_end empty.
previous_frame_end_after_flush_empty_on_error(result, future) ==
    IF result = "Ok" THEN then_signal_fence_and_flush(future) ELSE None

\* A match future { .. } that resets previous_frame_end on out-of-date only
\* and otherwise keeps the future of the chain it flushed.
previous_frame_end_after_flush_keeps_chain(result, future) ==
    IF result = "OutOfDate" THEN now ELSE then_signal_fence_and_flush(future)

\* match future { .. }: previous_frame_end after the flush of future.
previous_frame_end_after_flush(result, future) ==
    IF result = "Ok" THEN then_signal_fence_and_flush(future) ELSE now

\* What a redraw iteration has done so far.
NoIter ==
    [flagged |-> FALSE, minimized |-> FALSE, cleanups |-> 0, recreate |-> "none",
     acquire |-> "none", suboptimal |-> FALSE, passes |-> <<>>, submits |-> 0,
     presents |-> <<>>, flush |-> "none", panic |-> "none"]

\* The state of main before event_loop.run.
FrameStart ==
    /\ recreate_swapchain = FALSE
    /\ previous_frame_end = now
    /\ swapchain = 0
    /\ images = 0
    /\ dimensions = [width |-> 1, height |-> 1]
    /\ control_flow = "Poll"
    /\ pc = "idle"
    /\ acquired = None
    /\ frame = None
    /\ after_future = None
    /\ iterations = 0
    /\ iter = NoIter
    /\ need = {}
    /\ flushed = [result |-> "none", future |-> None]

\* The state before the caller has made any builder, with the caller's
\* variables S.
InitWith(S) ==
    /\ builders = [i \in S |-> Moved]
    /\ signal_calls = [i \in S |-> 0]
    /\ merged_calls = [i \in S |-> 0]
    /\ debug_assertions \in BOOLEAN
    /\ queue = <<>>
    /\ signaled_semaphores = {}
    /\ signaled_fences = {}
    /\ last = Did("none", 0, 0, "none", "none", 0)
    /\ FrameStart

\* let builder = SubmitCommandBufferBuilder::new();
New(i) ==
    /\ builders' = [builders EXCEPT ![i] = new]
    /\ signal_calls' = [signal_calls EXCEPT ![i] = 0]
    /\ merged_calls' = [merged_calls EXCEPT ![i] = 0]
    /\ last' = Did("new", i, 0, "none", "ok", 0)
    /\ UNCHANGED <<debug_assertions, device_vars>>
    /\ UNCHANGED frame_vars

\* builder.set_fence_signal(&fence);
SetFenceSignal(i, f) ==
    /\ Live(i)
    /\ builders' = [builders EXCEPT ![i] = set_fence_signal(@, f)]
    /\ last' = Did("set_fence_signal", i, 0, "none", "ok", 0)
    /\ UNCHANGED <<call_vars, debug_assertions, device_vars>>
    /\ UNCHANGED frame_vars

\* builder.add_wait_semaphore(&semaphore, stages);
AddWaitSemaphore(i, s, m) ==
    /\ Live(i)
    /\ Entries < MaxEntries
    /\ IF add_wait_semaphore_panics(m)
       THEN /\ last' = Did("add_wait_semaphore", i, 0, "none", "panic", 0)
            /\ UNCHANGED builders
       ELSE /\ builders' = [builders EXCEPT ![i] = add_wait_semaphore(@, s, m)]
            /\ last' = Did("add_wait_semaphore", i, 0, "none", "ok", 0)
    /\ UNCHANGED <<call_vars, debug_assertions, device_vars>>
    /\ UNCHANGED frame_vars

\* builder.add_command_buffer(&command_buffer);
AddCommandBuffer(i, c) ==
    /\ Live(i)
    /\ Entries < MaxEntries
    /\ builders' = [builders EXCEPT ![i] = add_command_buffer(@, c)]
    /\ last' = Did("add_command_buffer", i, 0, "none", "ok", 0)
    /\ UNCHANGED <<call_vars, debug_assertions, device_vars>>
    /\ UNCHANGED frame_vars

\* builder.add_signal_semaphore(&semaphore);
AddSignalSemaphore(i, s) ==
    /\ Live(i)
    /\ Entries < MaxEntries
    /\ builders' = [builders EXCEPT ![i] = add_signal_semaphore(@, s)]
    /\ signal_calls' = [signal_calls EXCEPT ![i] = @ + 1]
    /\ last' = Did("add_signal_semaphore", i, 0, "none", "ok", 0)
    /\ UNCHANGED <<merged_calls, debug_assertions, device_vars>>
    /\ UNCHANGED frame_vars

\* let builder_i = builder_i.merge(builder_j); both are moved into merge, and
\* a panic drops them.
Merge(i, j) ==
    /\ i # j
    /\ Live(i)
    /\ Live(j)
    /\ IF merge_panics(builders[i], builders[j])
       THEN /\ builders' = [builders EXCEPT ![i] = Moved, ![j] = Moved]
            /\ signal_calls' = [signal_calls EXCEPT ![i] = 0, ![j] = 0]
            /\ merged_calls' = [merged_calls EXCEPT ![i] = 0, ![j] = 0]
            /\ last' = Did("merge", i, j, "none", "panic", 0)
       ELSE /\ builders' = [builders EXCEPT ![i] = merge(builders[i], builders[j]),
                                            ![j] = Moved]
            /\ signal_calls' = [signal_calls EXCEPT ![j] = 0]
            /\ merged_calls' = [merged_calls EXCEPT
                                  ![i] = @ + signal_calls[j] + merged_calls[j],
                                  ![j] = 0]
            /\ last' = Did("merge", i, j, "none", "ok", 0)
    /\ UNCHANGED <<debug_assertions, device_vars>>
    /\ UNCHANGED frame_vars

\* builder.submit(&queue): the builder is moved into submit; the backend
\* answers with any VkResult.
Submit(i, result) ==
    /\ Live(i)
    /\ Entries < MaxEntries
    /\ SubmitContract(builders[i])
    /\ builders' = [builders EXCEPT ![i] = Moved]
    /\ signal_calls' = [signal_calls EXCEPT ![i] = 0]
    /\ merged_calls' = [merged_calls EXCEPT ![i] = 0]
    /\ IF submit_panics(builders[i])
       THEN /\ last' = Did("submit", i, builders[i].fence, "none", "panic", 0)
            /\ UNCHANGED device_vars
       ELSE /\ queue' = queue_submit(queue, submit_info(builders[i]), result)
            /\ last' = Did("submit", i, builders[i].fence, result, submit_result(result), 0)
            /\ UNCHANGED <<signaled_semaphores, signaled_fences>>
    /\ UNCHANGED debug_assertions
    /\ UNCHANGED frame_vars

\* The device executes the batch at the head of the queue: it consumes the
\* signals the batch waits on, runs the command buffers, signals the batch's
\* semaphores and its fence.
DeviceExecute ==
    /\ queue # <<>>
    /\ Range(Head(queue).wait_semaphores) \subseteq signaled_semaphores
    /\ signaled_semaphores' =
         (signaled_semaphores \ Range(Head(queue).wait_semaphores))
             \cup Range(Head(queue).signal_semaphores)
    /\ signaled_fences' = signaled_fences \cup ({Head(queue).fence} \ {NullFence})
    /\ queue' = Tail(queue)
    /\ last' = Did("execute", 0, Head(queue).fence, "none", "ok",
                   Len(Head(queue).command_buffers))
    /\ UNCHANGED <<builders, call_vars, debug_assertions>>
    /\ UNCHANGED frame_vars

\* merge where a panic unwinds the whole expression: Moved stands for an
\* operand or a result lost to a panic.
try_merge(self, other) ==
    IF self = Moved \/ other = Moved THEN Moved
    ELSE IF merge_panics(self, other) THEN Moved
    ELSE merge(self, other)

\* The call counts of a merge expression over the variables i, j, k, whose
\* result goes to i.
MergedCalls(i, j, k, result) ==
    IF result = Moved THEN [merged_calls EXCEPT ![i] = 0, ![j] = 0, ![k] = 0]
    ELSE [merged_calls EXCEPT
            ![i] = @ + signal_calls[j] + merged_calls[j] + signal_calls[k] + merged_calls[k],
            ![j] = 0, ![k] = 0]

SignalCalls(i, j, k, result) ==
    IF result = Moved THEN [signal_calls EXCEPT ![i] = 0, ![j] = 0, ![k] = 0]
    ELSE [signal_calls EXCEPT ![j] = 0, ![k] = 0]

\* let builder_i = builder_i.merge(builder_j).merge(builder_k);
MergeLeft(i, j, k) ==
    /\ Live(i) /\ Live(j) /\ Live(k)
    /\ LET result == try_merge(try_merge(builders[i], builders[j]), builders[k]) IN
         /\ builders' = [builders EXCEPT ![i] = result, ![j] = Moved, ![k] = Moved]
         /\ signal_calls' = SignalCalls(i, j, k, result)
         /\ merged_calls' = MergedCalls(i, j, k, result)
         /\ last' = Did("merge_left", i, j, "none",
                        IF result = Moved THEN "panic" ELSE "ok", 0)
    /\ UNCHANGED <<debug_assertions, device_vars>>
    /\ UNCHANGED frame_vars

\* let builder_i = builder_i.merge(builder_j.merge(builder_k));
MergeRight(i, j, k) ==
    /\ Live(i) /\ Live(j) /\ Live(k)
    /\ LET result == try_merge(builders[i], try_merge(builders[j], builders[k])) IN
         /\ builders' = [builders EXCEPT ![i] = result, ![j] = Moved, ![k] = Moved]
         /\ signal_calls' = SignalCalls(i, j, k, result)
         /\ merged_calls' = MergedCalls(i, j, k, result)
         /\ last' = Did("merge_right", i, j, "none",
                        IF result = Moved THEN "panic" ELSE "ok", 0)
    /\ UNCHANGED <<debug_assertions, device_vars>>
    /\ UNCHANGED frame_vars

\* fence.wait(Some(timeout)): Ok once the fence is signaled, a timeout
\* otherwise.
FenceWait(f) ==
    /\ last' = Did("fence_wait", 0, f, "none",
                   IF f \in signaled_fences THEN "ok" ELSE "timeout", 0)
    /\ UNCHANGED <<builders, call_vars, debug_assertions, device_vars>>
    /\ UNCHANGED frame_vars

(* --------------------------- specifications ---------------------------- *)

\* The builder operations on two variables: every builder a caller can
\* construct with new, set_fence_signal, the add operations and merge.
Init == InitWith({1, 2})

Next ==
    \/ \E i \in Slots : New(i)
    \/ \E i \in Slots, f \in Fences : SetFenceSignal(i, f)
    \/ \E i \in Slots, s \in Semaphores, m \in StageMasks : AddWaitSemaphore(i, s, m)
    \/ \E i \in Slots, c \in CommandBuffers : AddCommandBuffer(i, c)
    \/ \E i \in Slots, s \in Semaphores : AddSignalSemaphore(i, s)
    \/ \E i, j \in Slots : Merge(i, j)

Spec == Init /\ [][Next]_vars

\* One builder variable, the queue and the device: builders are built,
\* submitted and executed, and fences are waited on.
\* The build is the one the tests of submit run in, with debug assertions on.
InitSubmit == InitWith({1}) /\ debug_assertions = TRUE

NextSubmit ==
    \/ \E i \in Slots : New(i)
    \/ \E i \in Slots, f \in Fences : SetFenceSignal(i, f)
    \/ \E i \in Slots, s \in Semaphores, m \in StageMasks : AddWaitSemaphore(i, s, m)
    \/ \E i \in Slots, c \in CommandBuffers : AddCommandBuffer(i, c)
    \/ \E i \in Slots, s \in Semaphores : AddSignalSemaphore(i, s)
    \/ \E i \in Slots, r \in VkResults : Submit(i, r)
    \/ DeviceExecute
    \/ \E f \in Fences : FenceWait(f)

SpecSubmit == InitSubmit /\ [][NextSubmit]_vars

\* The same, with a device that does not stop while a batch it can execute
\* waits in the queue.
LiveSubmit == SpecSubmit /\ WF_vars(DeviceExecute)

\* merge as a function of three builders A, B and C: the variables 1, 2, 3
\* and 4, 5, 6 both hold A, B, C, the first three are merged as
\* A.merge(B).merge(C) and the last three as A.merge(B.merge(C)).
Repeat(x, n) == [k \in 1..n |-> x]

\* The handle the entries of the i-th argument carry.
Handle(i) == ((i - 1) % 2) + 1

\* The builders the i-th argument is drawn from: up to MaxItems entries in
\* each list, with or without a fence.
MergeArgs(i) ==
    {[wait_semaphores |-> Repeat(Handle(i), nw),
      destination_stages |-> Repeat(Handle(i), nw),
      signal_semaphores |-> Repeat(Handle(i), ns),
      command_buffers |-> Repeat(Handle(i), nc),
      fence |-> f] :
        nw \in 0..MaxItems, ns \in 0..MaxItems, nc \in 0..MaxItems,
        f \in {NullFence, Handle(i)}}

InitMerge ==
    /\ \E a \in MergeArgs(1), b \in MergeArgs(2), c \in MergeArgs(3) :
         builders = <<a, b, c, a, b, c>>
    /\ signal_calls = [i \in 1..6 |-> Len(builders[i].signal_semaphores)]
    /\ merged_calls = [i \in 1..6 |-> 0]
    /\ debug_assertions \in BOOLEAN
    /\ queue = <<>>
    /\ signaled_semaphores = {}
    /\ signaled_fences = {}
    /\ last = Did("none", 0, 0, "none", "none", 0)
    /\ FrameStart

NextMerge ==
    \/ MergeLeft(1, 2, 3)
    \/ MergeRight(4, 5, 6)

SpecMerge == InitMerge /\ [][NextMerge]_vars

(* ----------------------- the frame loop: actions ----------------------- *)

\* The handler returns: the locals of the iteration are dropped.
Return(p) ==
    /\ pc' = p
    /\ acquired' = None
    /\ frame' = None
    /\ after_future' = None

\* The handler panics in the call named by what.
Panic(what) ==
    /\ iter' = [iter EXCEPT !.panic = what]
    /\ Return("panic")

\* Event::WindowEvent { event: WindowEvent::CloseRequested, .. }
CloseRequested ==
    /\ pc = "idle" /\ control_flow = "Poll"
    /\ control_flow' = "Exit"
    /\ UNCHANGED <<recreate_swapchain, previous_frame_end, swapchain, images,
                   dimensions, pc, acquired, frame, after_future, iterations, iter,
                   need, flushed>>
    /\ UNCHANGED builder_vars

\* Event::WindowEvent { event: WindowEvent::Resized(_), .. }, the window
\* being w wide and h high from now on.
Resized(w, h) ==
    /\ pc = "idle" /\ control_flow = "Poll"
    /\ dimensions' = [width |-> w, height |-> h]
    /\ recreate_swapchain' = TRUE
    /\ need' = need \cup {"Resized"}
    /\ UNCHANGED <<previous_frame_end, swapchain, images, control_flow, pc, acquired,
                   frame, after_future, iterations, iter, flushed>>
    /\ UNCHANGED builder_vars

\* Event::RedrawEventsCleared, up to cleanup_finished.
RedrawEventsCleared ==
    /\ pc = "idle" /\ control_flow = "Poll"
    /\ zero_sized(dimensions) \/ iterations < MaxFrames
    /\ IF zero_sized(dimensions)
       THEN /\ iter' = [NoIter EXCEPT !.flagged = recreate_swapchain,
                                      !.minimized = TRUE]
            /\ UNCHANGED <<pc, acquired, frame, after_future, iterations>>
       ELSE /\ iterations' = iterations + 1
            /\ IF previous_frame_end = None
               THEN /\ iter' = [NoIter EXCEPT !.flagged = recreate_swapchain,
                                              !.panic = "as_mut_unwrap"]
                    /\ Return("panic")
               ELSE /\ iter' = [NoIter EXCEPT !.flagged = recreate_swapchain,
                                              !.cleanups = 1]
                    /\ pc' = "recreate"
                    /\ UNCHANGED <<acquired, frame, after_future>>
    /\ UNCHANGED <<recreate_swapchain, previous_frame_end, swapchain, images,
                   dimensions, control_flow, need, flushed>>
    /\ UNCHANGED builder_vars

\* if recreate_swapchain { .. }, swapchain.recreate returning result.
Recreate(result) ==
    /\ pc = "recreate"
    /\ IF ~recreate_swapchain
       THEN /\ pc' = "acquire"
            /\ UNCHANGED <<recreate_swapchain, swapchain, images, acquired, frame,
                           after_future, iter, need>>
       ELSE LET r == recreate_arm(result, swapchain, images, recreate_swapchain) IN
            /\ swapchain' = r.swapchain
            /\ images' = r.images
            /\ recreate_swapchain' = r.recreate_swapchain
            /\ need' = IF result = "Ok" THEN {} ELSE need
            /\ CASE result = "Ok" ->
                      /\ iter' = [iter EXCEPT !.recreate = result]
                      /\ pc' = "acquire"
                      /\ UNCHANGED <<acquired, frame, after_future>>
                 [] result = "ImageExtentNotSupported" ->
                      /\ iter' = [iter EXCEPT !.recreate = result]
                      /\ Return("idle")
                 [] OTHER ->
                      /\ iter' = [iter EXCEPT !.recreate = result, !.panic = "recreate"]
                      /\ Return("panic")
    /\ UNCHANGED <<previous_frame_end, dimensions, control_flow, iterations, flushed>>
    /\ UNCHANGED builder_vars

\* acquire_next_image(swapchain.clone(), None) returning result, and
\* if suboptimal { .. }.
Acquire(result, image_num, suboptimal) ==
    /\ pc = "acquire"
    /\ recreate_swapchain' = flag_after_acquire(recreate_swapchain, result, suboptimal)
    /\ CASE result = "Ok" ->
              /\ acquired' = [image_num |-> image_num, suboptimal |-> suboptimal,
                              future |-> acquire_future(swapchain, image_num)]
              /\ iter' = [iter EXCEPT !.acquire = result, !.suboptimal = suboptimal]
              /\ need' = IF suboptimal THEN need \cup {"Suboptimal"} ELSE need
              /\ pc' = "join"
              /\ UNCHANGED <<frame, after_future>>
         [] result = "OutOfDate" ->
              /\ iter' = [iter EXCEPT !.acquire = result]
              /\ need' = need \cup {"AcquireOutOfDate"}
              /\ Return("idle")
         [] OTHER ->
              /\ iter' = [iter EXCEPT !.acquire = result, !.panic = "acquire"]
              /\ need' = need
              /\ Return("panic")
    /\ UNCHANGED <<previous_frame_end, swapchain, images, dimensions, control_flow,
                   iterations, flushed>>
    /\ UNCHANGED builder_vars

\* let future = previous_frame_end.take().unwrap().join(acquire_future);
\* let mut frame = frame_system.frame(future, images[image_num].clone(), ..);
\* let mut after_future = None;
Join ==
    /\ pc = "join"
    /\ previous_frame_end' = None
    /\ IF previous_frame_end = None
       THEN Panic("take_unwrap")
       ELSE /\ frame' = new_frame(join(previous_frame_end, acquired.future),
                                  image_view(images, acquired.image_num))
            /\ after_future' = None
            /\ pc' = "passes"
            /\ UNCHANGED <<acquired, iter>>
    /\ UNCHANGED <<recreate_swapchain, swapchain, images, dimensions, control_flow,
                   iterations, need, flushed>>
    /\ UNCHANGED builder_vars

\* One turn of while let Some(pass) = frame.next_pass() { match pass { .. } }
NextPass ==
    /\ pc = "passes"
    /\ LET r == next_pass(frame) IN
       /\ frame' = r.frame
       /\ IF r.pass = "None"
          THEN /\ pc' = "present"
               /\ UNCHANGED <<after_future, iter>>
          ELSE /\ after_future' = match_pass(r.pass, frame, after_future)
               /\ iter' = [iter EXCEPT
                      !.passes = Append(@, r.pass),
                      !.submits = IF r.pass = "Finished" THEN @ + 1 ELSE @]
               /\ UNCHANGED pc
    /\ UNCHANGED <<recreate_swapchain, previous_frame_end, swapchain, images,
                   dimensions, control_flow, acquired, iterations, need, flushed>>
    /\ UNCHANGED builder_vars

\* after_future.unwrap().then_swapchain_present(..).then_signal_fence_and_flush()
\* returning result, and match future { .. }.
Present(result) ==
    /\ pc = "present"
    /\ IF after_future = None
       THEN /\ Panic("after_future_unwrap")
            /\ UNCHANGED <<recreate_swapchain, previous_frame_end, need, flushed>>
       ELSE LET future == then_swapchain_present(after_future, swapchain,
                                                 acquired.image_num)
                kept == previous_frame_end_after_flush(result, future)
            IN  /\ previous_frame_end' = kept
                /\ recreate_swapchain' = flag_after_flush(recreate_swapchain, result)
                /\ iter' = [iter EXCEPT
                       !.presents = Append(@, [swapchain |-> swapchain,
                                               image_num |-> acquired.image_num]),
                       !.flush = result]
                /\ need' = IF result = "OutOfDate"
                           THEN need \cup {"FlushOutOfDate"} ELSE need
                /\ flushed' = [result |-> result,
                               future |-> IF result = "Ok" THEN kept
                                          ELSE flushed.future]
                /\ Return("idle")
    /\ UNCHANGED <<swapchain, images, dimensions, control_flow, iterations>>
    /\ UNCHANGED builder_vars

\* The frame loop: the events the window sends and the steps of the redraw
\* handler, with a window that is shown when the loop starts.
InitFrame == InitWith({1}) /\ debug_assertions = TRUE

NextFrame ==
    \/ CloseRequested
    \/ \E w, h \in Extents : Resized(w, h)
    \/ RedrawEventsCleared
    \/ \E r \in RecreateResults : Recreate(r)
    \/ \E r \in AcquireResults, n \in ImageNums, sub \in BOOLEAN : Acquire(r, n, sub)
    \/ Join
    \/ NextPass
    \/ \E r \in FlushResults : Present(r)

SpecFrame == InitFrame /\ [][NextFrame]_vars

\* The same, with a handler that does not stop inside its while loop.
LiveFrame == SpecFrame /\ WF_vars(NextPass)

(* ------------------------------ claims --------------------------------- *)

AddOps == {"add_wait_semaphore", "add_command_buffer", "add_signal_semaphore"}

\* The step is the call last' describes, on the variable i.
Called(op, i) == last'.op = op /\ last'.self = i

\* C1: merge panics exactly when both self and other carry a fence; a merge
\* that panics leaves no builder behind, neither self nor other nor a merged
\* one.
C1_MergePanicsIffBothFenced ==
    [][\A i, j \in Slots :
         (Called("merge", i) /\ last'.other = j) =>
            /\ (last'.result = "panic")
                 <=> (builders[i].fence # NullFence /\ builders[j].fence # NullFence)
            /\ last'.result = "panic" => (builders'[i] = Moved /\ builders'[j] = Moved)
            /\ last'.result # "panic" => (last'.result = "ok" /\ builders'[i] # Moved)]_vars

\* A merge of two fenced builders has panicked.
C1_Witness ==
    /\ last.op = "merge"
    /\ last.result = "panic"
    /\ builders[last.self] = Moved
    /\ builders[last.other] = Moved

\* C2: a merge that does not panic leaves the fence of self when only self
\* carries one, the fence of other when only other carries one, and no fence
\* when neither does: the merged builder carries one fence at most, one that
\* an argument carried.
C2_MergeKeepsTheOneFence ==
    [][\A i, j \in Slots :
         (Called("merge", i) /\ last'.other = j /\ last'.result = "ok") =>
            /\ (builders[i].fence # NullFence /\ builders[j].fence = NullFence)
                 => builders'[i].fence = builders[i].fence
            /\ (builders[i].fence = NullFence /\ builders[j].fence # NullFence)
                 => builders'[i].fence = builders[j].fence
            /\ (builders[i].fence = NullFence /\ builders[j].fence = NullFence)
                 => builders'[i].fence = NullFence
            /\ builders'[i].fence \in {builders[i].fence, builders[j].fence}]_vars

\* A merge has left a fenced builder that holds entries of both arguments.
C2_Witness ==
    /\ last.op = "merge"
    /\ last.result = "ok"
    /\ builders[last.self].fence # NullFence
    /\ signal_calls[last.self] > 0
    /\ merged_calls[last.self] > 0

\* C3: a merge that does not panic leaves in each of the four lists the list
\* of self followed by the list of other, and every wait semaphore at the
\* index of the stage mask it was added with.
C3_MergeConcatenates ==
    [][\A i, j \in Slots :
         (Called("merge", i) /\ last'.other = j /\ last'.result = "ok") =>
            LET a == builders[i]
                b == builders[j]
                m == builders'[i]
                n == Len(a.wait_semaphores)
            IN  /\ m.command_buffers = a.command_buffers \o b.command_buffers
                /\ m.wait_semaphores = a.wait_semaphores \o b.wait_semaphores
                /\ m.destination_stages = a.destination_stages \o b.destination_stages
                /\ m.signal_semaphores = a.signal_semaphores \o b.signal_semaphores
                /\ \A k \in 1..n :
                     /\ m.wait_semaphores[k] = a.wait_semaphores[k]
                     /\ m.destination_stages[k] = a.destination_stages[k]
                /\ \A k \in 1..Len(b.wait_semaphores) :
                     /\ m.wait_semaphores[n + k] = b.wait_semaphores[k]
                     /\ m.destination_stages[n + k] = b.destination_stages[k]]_vars

\* A merge has left two waits with different semaphores and different stage
\* masks.
C3_Witness ==
    /\ last.op = "merge"
    /\ last.result = "ok"
    /\ Len(builders[last.self].wait_semaphores) = 2
    /\ builders[last.self].wait_semaphores[1] # builders[last.self].wait_semaphores[2]
    /\ builders[last.self].destination_stages[1] # builders[last.self].destination_stages[2]

NumFenced(S) == Cardinality({i \in S : builders[i] # Moved /\ builders[i].fence # NullFence})

\* C4: A.merge(B).merge(C) and A.merge(B.merge(C)) both panic when two or
\* more of A, B, C carry a fence, and otherwise leave the same builder: the
\* same four lists and the same fence.
C4_MergeAssociative ==
    /\ (builders[2] = Moved /\ builders[5] = Moved) => builders[1] = builders[4]
    /\ (builders[2] = Moved /\ builders[5] # Moved) =>
          (builders[1] = Moved <=> NumFenced({4, 5, 6}) >= 2)
    /\ (builders[2] # Moved /\ builders[5] = Moved) =>
          (builders[4] = Moved <=> NumFenced({1, 2, 3}) >= 2)

\* Both expressions were evaluated without a panic on three builders with
\* entries in every list, one of them fenced.
C4_Witness ==
    /\ builders[2] = Moved
    /\ builders[5] = Moved
    /\ builders[1] # Moved
    /\ builders[4] # Moved
    /\ builders[1].fence # NullFence
    /\ Len(builders[1].wait_semaphores) >= 3
    /\ Len(builders[1].command_buffers) >= 3
    /\ Len(builders[1].signal_semaphores) >= 3

\* C5: every builder has as many wait semaphores as stage masks, so the
\* debug_assert_eq! of submit holds for it.
C5_WaitsMatchStages ==
    \A i \in Slots :
        builders[i] # Moved =>
            /\ Len(builders[i].wait_semaphores) = Len(builders[i].destination_stages)
            /\ ~submit_panics(builders[i])

\* A merge has left a builder with waits of its own and of the other builder.
C5_Witness ==
    /\ last.op = "merge"
    /\ last.result = "ok"
    /\ Len(builders[last.self].wait_semaphores) = 2
    /\ debug_assertions

\* C6: has_fence() is false on a builder new() made, true after
\* set_fence_signal, and no add operation changes it.
C6_HasFence ==
    [][\A i \in Slots :
         /\ Called("new", i) => ~has_fence(builders'[i])
         /\ Called("set_fence_signal", i) => has_fence(builders'[i])
         /\ (last'.op \in AddOps /\ last'.self = i) =>
               has_fence(builders'[i]) = has_fence(builders[i])]_vars

\* An add operation has followed set_fence_signal, which followed another add
\* operation.
C6_Witness ==
    /\ last.op = "add_command_buffer"
    /\ has_fence(builders[last.self])
    /\ Len(builders[last.self].wait_semaphores) > 0

BatchOf(b) ==
    [wait_semaphores |-> b.wait_semaphores,
     wait_dst_stage_mask |-> b.destination_stages,
     command_buffers |-> b.command_buffers,
     signal_semaphores |-> b.signal_semaphores,
     fence |-> b.fence]

EmptyBatch ==
    [wait_semaphores |-> <<>>,
     wait_dst_stage_mask |-> <<>>,
     command_buffers |-> <<>>,
     signal_semaphores |-> <<>>,
     fence |-> NullFence]

\* C8: submit returns Ok when the backend accepts the batch, OomError when it
\* reports out of host or device memory, DeviceLost when it reports device
\* loss, and panics on any other error; the backend is handed exactly one
\* batch, with the lists and the fence of the builder, so that an accepted
\* submission adds that one batch to the queue and a refused one adds none.
C8_SubmitResults ==
    [][\A i \in Slots :
         Called("submit", i) =>
            /\ last'.backend \in VkResults
            /\ last'.backend = "SUCCESS" => last'.result = "Ok"
            /\ last'.backend = "ERROR_OUT_OF_HOST_MEMORY"
                 => last'.result = "OomError(OutOfHostMemory)"
            /\ last'.backend = "ERROR_OUT_OF_DEVICE_MEMORY"
                 => last'.result = "OomError(OutOfDeviceMemory)"
            /\ last'.backend = "ERROR_DEVICE_LOST" => last'.result = "DeviceLost"
            /\ last'.backend \notin {"SUCCESS", "ERROR_OUT_OF_HOST_MEMORY",
                                     "ERROR_OUT_OF_DEVICE_MEMORY", "ERROR_DEVICE_LOST"}
                 => last'.result = "panic"
            /\ queue' = IF last'.backend = "SUCCESS"
                        THEN Append(queue, BatchOf(builders[i]))
                        ELSE queue
            /\ builders'[i] = Moved]_vars

\* submit has panicked on a backend error that is neither out of memory nor
\* device loss.
C8_Witness ==
    /\ last.op = "submit"
    /\ last.backend = "ERROR_INITIALIZATION_FAILED"
    /\ last.result = "panic"

\* C9: a builder new() made is empty; submitting an empty builder that the
\* backend accepts returns Ok, queues the empty batch and changes no semaphore
\* and no fence; the device executing the empty batch runs no command buffer,
\* consumes and signals no semaphore and signals no fence.
C9_EmptySubmitIsNoOp ==
    [][/\ \A i \in Slots :
            /\ Called("new", i) => BatchOf(builders'[i]) = EmptyBatch
            /\ (Called("submit", i) /\ BatchOf(builders[i]) = EmptyBatch
                  /\ last'.backend = "SUCCESS") =>
                  /\ last'.result = "Ok"
                  /\ queue' = Append(queue, EmptyBatch)
                  /\ signaled_semaphores' = signaled_semaphores
                  /\ signaled_fences' = signaled_fences
       /\ (last'.op = "execute" /\ queue # <<>> /\ Head(queue) = EmptyBatch) =>
            /\ last'.ran = 0
            /\ signaled_semaphores' = signaled_semaphores
            /\ signaled_fences' = signaled_fences
            /\ queue' = Tail(queue)]_vars

\* An empty builder was submitted and accepted while a semaphore and a fence
\* are signaled.
C9_Witness ==
    /\ last.op = "submit"
    /\ last.result = "Ok"
    /\ queue # <<>>
    /\ queue[Len(queue)] = EmptyBatch
    /\ signaled_semaphores # {}
    /\ signaled_fences # {}

\* C10: a fence attached to a builder whose submit returned Ok is signaled in
\* the end; a fence becomes signaled only by the execution of a batch that
\* carries it, so it is not ready before its submission; and a wait on the
\* fence that completes finds it ready.
C10_SubmittedFenceBecomesReady ==
    /\ \A f \in Fences :
         (last.op = "submit" /\ last.result = "Ok" /\ last.other = f)
            ~> (f \in signaled_fences)
    /\ [][\A f \in Fences :
            (f \notin signaled_fences /\ f \in signaled_fences') =>
               (queue # <<>> /\ Head(queue).fence = f /\ last'.op = "execute")]_vars
    /\ [](\A f \in Fences :
            (last.op = "fence_wait" /\ last.other = f /\ last.result = "ok")
               => f \in signaled_fences)

\* A wait on a fence has completed.
C10_Witness ==
    /\ last.op = "fence_wait"
    /\ last.result = "ok"
    /\ last.other \in signaled_fences

(* ------------------------ claims: the frame loop ----------------------- *)

\* The passes the while loop of this iteration has been through are the first
\* ones of Deferred, Lighting, Finished, as many as next_pass was called for.
PassesInOrder ==
    pc \in {"passes", "present"} =>
        /\ frame.cursor <= Len(Passes)
        /\ iter.passes = SubSeq(Passes, 1, frame.cursor)

\* C11: the calls of next_pass of a frame yield Deferred, Lighting, Finished
\* in this order and nothing after Finished; the while loop is left after
\* exactly these three passes, with after_future holding the future of
\* Finished, so that after_future.unwrap() does not fail; and the loop is
\* left.
C11_ThreePassesThenPresent ==
    /\ [](/\ PassesInOrder
          /\ pc = "present" =>
                /\ iter.passes = Passes
                /\ next_pass(frame).pass = "None"
                /\ after_future = finished_future(frame)
                /\ after_future # None
          /\ iter.panic # "after_future_unwrap")
    /\ (pc = "passes") ~> (pc = "present")

C11_Witness ==
    /\ pc = "present"
    /\ iter.passes = <<"Deferred", "Lighting", "Finished">>
    /\ after_future # None

\* The step is the handling of RedrawEventsCleared up to its first return
\* or to cleanup_finished: no other event changes iter or pc of an idle loop.
RedrawBegins == pc = "idle" /\ (iter' # iter \/ pc' # "idle")

\* C12: a redraw iteration that finds the window zero wide or zero high ends
\* at once: it calls no cleanup_finished, recreates no swapchain, acquires no
\* image, submits nothing and presents nothing, and swapchain, images,
\* recreate_swapchain and previous_frame_end are what they were.
C12_MinimizedIterationDoesNothing ==
    [][(RedrawBegins /\ (dimensions.width = 0 \/ dimensions.height = 0)) =>
          /\ pc' = "idle"
          /\ iter'.cleanups = 0
          /\ iter'.recreate = "none"
          /\ iter'.acquire = "none"
          /\ iter'.submits = 0
          /\ iter'.presents = <<>>
          /\ UNCHANGED <<swapchain, images, recreate_swapchain, previous_frame_end>>
      ]_vars

C12_Witness ==
    /\ pc = "idle"
    /\ iter.minimized /\ iter.flagged
    /\ dimensions.width # 0 /\ dimensions.height = 0
    /\ recreate_swapchain
    /\ previous_frame_end.kind = "fence"

\* The step is the call of acquire_next_image.
AcquireCalled == pc = "acquire" /\ pc' # "acquire"

\* C13: when acquire_next_image reports out-of-date the iteration ends with
\* nothing submitted and nothing presented, previous_frame_end still holds
\* the future it held, and recreate_swapchain is set; and no image is
\* acquired after that before a recreation of the swapchain has succeeded.
C13_AcquireOutOfDate ==
    [][/\ (AcquireCalled /\ iter'.acquire = "OutOfDate") =>
             /\ pc' = "idle"
             /\ iter'.submits = 0
             /\ iter'.presents = <<>>
             /\ previous_frame_end # None
             /\ previous_frame_end' = previous_frame_end
             /\ recreate_swapchain'
             /\ UNCHANGED <<swapchain, images>>
       /\ AcquireCalled => "AcquireOutOfDate" \notin need
      ]_vars

C13_Witness ==
    /\ pc = "idle"
    /\ iter.acquire = "OutOfDate"
    /\ ~iter.flagged
    /\ recreate_swapchain
    /\ previous_frame_end.kind = "fence"

\* The step is the present and the flush of the frame, with their match.
PresentCalled == pc = "present" /\ pc' # "present" /\ iter'.flush # "none"

\* C14: when the flush fails with an error other than out-of-date, the
\* handler returns with previous_frame_end holding a new sync::now future:
\* not empty and not a future of the chain that failed; the loop goes on and
\* recreate_swapchain is what it was.
C14_FlushErrorResetsFuture ==
    [][(PresentCalled /\ iter'.flush = "OtherError") =>
          /\ previous_frame_end' = now
          /\ previous_frame_end' # None
          /\ pc' = "idle"
          /\ control_flow' = "Poll"
          /\ UNCHANGED recreate_swapchain
      ]_vars

C14_Witness ==
    /\ pc = "idle"
    /\ iter.flush = "OtherError"
    /\ previous_frame_end = now
    /\ flushed.future # None

\* C15: when the flush fails with out-of-date, the handler returns with
\* recreate_swapchain set and previous_frame_end holding a new sync::now
\* future, and the loop goes on; the next iteration that gets to the
\* recreation block finds the flag set, and no image is acquired before a
\* recreation of the swapchain has succeeded.
C15_FlushOutOfDate ==
    [][/\ (PresentCalled /\ iter'.flush = "OutOfDate") =>
             /\ recreate_swapchain'
             /\ previous_frame_end' = now
             /\ pc' = "idle"
             /\ control_flow' = "Poll"
       /\ (pc = "recreate" /\ "FlushOutOfDate" \in need) => recreate_swapchain
       /\ AcquireCalled => "FlushOutOfDate" \notin need
      ]_vars

C15_Witness ==
    /\ pc = "idle"
    /\ iter.flush = "OutOfDate"
    /\ ~iter.flagged /\ ~iter.suboptimal
    /\ recreate_swapchain
    /\ previous_frame_end = now
    /\ control_flow = "Poll"

\* The future f is g or is chained after g.
RECURSIVE DependsOn(_, _)
DependsOn(f, g) ==
    \/ f = g
    \/ CASE f.kind = "join" -> DependsOn(f.first, g) \/ DependsOn(f.second, g)
         [] f.kind \in {"frame", "present", "fence"} -> DependsOn(f.previous, g)
         [] OTHER -> FALSE

\* The step makes the frame of this iteration: its future is the join of what
\* previous_frame_end held with the acquire future of this iteration's image.
FrameJoinsPreviousAndAcquire ==
    (pc = "join" /\ pc' = "passes") =>
        /\ previous_frame_end # None
        /\ frame'.future = [kind |-> "join", first |-> previous_frame_end,
                            second |-> [kind |-> "acquire", swapchain |-> swapchain,
                                        image_num |-> acquired.image_num]]
        /\ acquired.future = frame'.future.second

\* A successful flush leaves the future it returned in previous_frame_end.
FlushedFutureIsRetained ==
    (PresentCalled /\ iter'.flush = "Ok") =>
        previous_frame_end' =
            [kind |-> "fence",
             previous |-> [kind |-> "present", previous |-> after_future,
                           swapchain |-> swapchain,
                           image_num |-> acquired.image_num]]

\* The step is the pass that submits the work of the frame.
FrameSubmitted == pc = "passes" /\ iter'.submits > iter.submits

\* C16 as stated: the future of a frame is the join of the previous frame's
\* future with the acquire future of this iteration, a successful flush
\* leaves its future in previous_frame_end, and the work of a frame is never
\* submitted without depending on the last frame that was flushed
\* successfully.
C16_DependsOnLastFlushedFrame ==
    [][/\ FrameJoinsPreviousAndAcquire
       /\ FlushedFutureIsRetained
       /\ (FrameSubmitted /\ flushed.future # None) =>
              /\ DependsOn(frame.future, flushed.future)
              /\ DependsOn(after_future', flushed.future)
      ]_vars

\* C16, amended: the future of a frame is the join of what previous_frame_end
\* held with the acquire future of this iteration, a successful flush leaves
\* its future in previous_frame_end, and the work of a frame is submitted
\* depending on the last flushed frame whenever the latest flush succeeded;
\* after a flush that failed it depends on a new sync::now future instead.
C16_DependsOnPreviousFrameEnd ==
    [][/\ FrameJoinsPreviousAndAcquire
       /\ FlushedFutureIsRetained
       /\ (FrameSubmitted /\ flushed.result = "Ok") =>
              /\ frame.future.first = flushed.future
              /\ DependsOn(after_future', flushed.future)
       /\ (FrameSubmitted /\ flushed.result \in {"OutOfDate", "OtherError"}) =>
              frame.future.first = now
      ]_vars

C16_Witness ==
    /\ pc = "present"
    /\ flushed.result = "Ok"
    /\ frame.future.first = flushed.future
    /\ DependsOn(after_future, flushed.future)
    /\ iter.submits = 1

\* The step is the call of swapchain.recreate.
RecreateCalled == pc = "recreate" /\ recreate_swapchain /\ pc' # "recreate"

\* C17: when the flag is set and swapchain.recreate reports an unsupported
\* image extent, the iteration ends there: swapchain and images are what they
\* were, recreate_swapchain stays set, previous_frame_end still holds its
\* future, no image was acquired and nothing was submitted or presented. Any
\* other failure of swapchain.recreate is a panic, after which the handler
\* runs no more.
C17_UnsupportedExtentEndsIteration ==
    [][/\ (RecreateCalled /\ iter'.recreate = "ImageExtentNotSupported") =>
             /\ pc' = "idle"
             /\ UNCHANGED <<swapchain, images, previous_frame_end>>
             /\ previous_frame_end # None
             /\ recreate_swapchain'
             /\ iter'.acquire = "none"
             /\ iter'.submits = 0
             /\ iter'.presents = <<>>
       /\ (RecreateCalled /\ iter'.recreate = "OtherError") =>
             /\ pc' = "panic"
             /\ iter'.panic = "recreate"
       /\ pc # "panic"
      ]_vars

C17_Witness ==
    /\ pc = "idle"
    /\ iter.recreate = "ImageExtentNotSupported"
    /\ recreate_swapchain
    /\ swapchain = images
    /\ previous_frame_end.kind = "fence"

\* C18: when acquire_next_image returns an image and says suboptimal, the
\* iteration goes on with recreate_swapchain set: it recreates nothing, drives
\* the three passes, submits once and presents once, the image it acquired on
\* the swapchain it acquired it from; the flag is still set when the handler
\* returns, whatever the flush returned, and no later iteration acquires an
\* image before a recreation has succeeded.
C18_SuboptimalStillPresents ==
    [][/\ (AcquireCalled /\ iter'.acquire = "Ok" /\ iter'.suboptimal) =>
             /\ pc' = "join"
             /\ recreate_swapchain'
       /\ (iter.suboptimal /\ pc # "idle") =>
             /\ recreate_swapchain'
             /\ UNCHANGED <<swapchain, images>>
             /\ pc' # "panic"
       /\ (PresentCalled /\ iter.suboptimal) =>
             /\ iter'.passes = <<"Deferred", "Lighting", "Finished">>
             /\ iter'.submits = 1
             /\ iter'.presents = <<[swapchain |-> acquired.future.swapchain,
                                    image_num |-> acquired.image_num]>>
             /\ after_future.image = [swapchain |-> images,
                                      image_num |-> acquired.image_num]
             /\ pc' = "idle"
       /\ AcquireCalled => "Suboptimal" \notin need
      ]_vars

C18_Witness ==
    /\ pc = "idle"
    /\ iter.suboptimal
    /\ ~iter.flagged
    /\ iter.flush = "Ok"
    /\ Len(iter.presents) = 1
    /\ recreate_swapchain

\* C19: previous_frame_end holds a future whenever the handler is not
\* between line 206, which takes it, and the match at lines 234-246, which
\* puts one back: at every start of a redraw iteration, at cleanup_finished
\* and at the take; so neither previous_frame_end.as_mut().unwrap() nor
\* previous_frame_end.take().unwrap() panics.
C19_PreviousFrameEndIsSome ==
    /\ pc \in {"idle", "recreate", "acquire", "join"} => previous_frame_end # None
    /\ pc \in {"passes", "present"} => previous_frame_end = None
    /\ iter.panic \notin {"as_mut_unwrap", "take_unwrap"}

C19_Witness ==
    /\ pc = "join"
    /\ flushed.result = "OtherError"
    /\ flushed.future # None
    /\ previous_frame_end = now

\* C20: when the handler stands at the call of acquire_next_image,
\* recreate_swapchain is false: it was false when the iteration started, or
\* swapchain.recreate has succeeded earlier in this iteration; and nothing
\* that asked for a recreation is still unanswered.
C20_NoAcquireWhileRecreationPending ==
    pc = "acquire" =>
        /\ ~recreate_swapchain
        /\ ~iter.flagged \/ iter.recreate = "Ok"
        /\ iter.flagged \/ iter.recreate = "none"
        /\ need = {}
        /\ images = swapchain

C20_Witness ==
    /\ pc = "acquire"
    /\ iter.flagged
    /\ iter.recreate = "Ok"
    /\ flushed.result = "OutOfDate"

\* The step is a call of swapchain.recreate that returns Ok.
RecreateSucceeds == RecreateCalled /\ iter'.recreate = "Ok" /\ pc' = "acquire"

\* C21: recreate_swapchain is set while a resize, an out-of-date or
\* suboptimal acquisition or an out-of-date flush has not been answered by a
\* successful recreation; a step clears the flag only if it is a successful
\* call of swapchain.recreate, whatever iterations and events lie between;
\* and swapchain and images change only in such a step, both at once, the
\* images being those of the new swapchain.
C21_FlagStaysUntilRecreated ==
    [][/\ (need # {} /\ pc \in {"idle", "recreate"}) => recreate_swapchain
       /\ need' # {} => recreate_swapchain'
       /\ (recreate_swapchain /\ ~recreate_swapchain') => RecreateSucceeds
       /\ (swapchain' # swapchain \/ images' # images) => RecreateSucceeds
       /\ RecreateSucceeds =>
             /\ ~recreate_swapchain'
             /\ swapchain' # swapchain
             /\ images' # images
             /\ images' = swapchain'
      ]_vars

C21_Witness ==
    /\ pc = "acquire"
    /\ iter.recreate = "Ok"
    /\ ~recreate_swapchain
    /\ swapchain = 1 /\ images = 1
    /\ iterations = 3
    /\ flushed.result = "OtherError"

\* C22: an iteration calls acquire_next_image at most once; once it has
\* acquired an image it neither returns nor panics before the present, and it
\* makes exactly one present-and-flush attempt, of the image index it
\* acquired on the swapchain it acquired it from, drawn into the view of that
\* image; an iteration that acquired no image presents nothing.
C22_OneAcquireOnePresent ==
    [][/\ AcquireCalled => (iter.acquire = "none" /\ iter.presents = <<>>)
       /\ pc \in {"join", "passes"} => pc' \notin {"idle", "panic"}
       /\ pc = "present" => (pc' # "panic" /\ (pc' = "idle" => PresentCalled))
       /\ PresentCalled =>
             /\ iter.acquire = "Ok"
             /\ iter.presents = <<>>
             /\ iter'.presents = <<[swapchain |-> acquired.future.swapchain,
                                    image_num |-> acquired.future.image_num]>>
             /\ after_future.image = [swapchain |-> images,
                                      image_num |-> acquired.future.image_num]
             /\ iter'.flush = "Ok" =>
                   /\ previous_frame_end'.previous.image_num
                          = acquired.future.image_num
                   /\ previous_frame_end'.previous.swapchain
                          = acquired.future.swapchain
       /\ (pc # "idle" /\ pc' = "idle") =>
             Len(iter'.presents) = (IF iter'.acquire = "Ok" THEN 1 ELSE 0)
      ]_vars

C22_Witness ==
    /\ pc = "idle"
    /\ iter.acquire = "Ok"
    /\ iter.presents = <<[swapchain |-> 1, image_num |-> 1]>>
    /\ iter.flush = "Ok"
    /\ previous_frame_end.previous.image_num = 1

====
